---- MODULE Spec2Model ----
(***************************************************************************)
(* State machine of scripts/state_parser.py: main() walks the configured   *)
(* environments; for each one it lists the bucket keys with the            *)
(* environment's prefix, generates backend files, then runs a              *)
(* "terraform init" pool and a "terraform state pull" pool over every      *)
(* directory found under the environment's output path.                    *)
(*                                                                         *)
(* Python strings are sequences of one-character strings.  The module is   *)
(* read as if parse_state_file (line 233, declared without a body) were an *)
(* empty function.                                                         *)
(***************************************************************************)
EXTENDS Integers, Sequences, FiniteSets, TLC

(* ---- bounds of the model ---- *)
MaxEnvs == 2
MaxKeys == 2
MaxDirs == 2

(* ---- string literals of the source ---- *)
TFSTATE == <<".", "t", "f", "s", "t", "a", "t", "e">>
GENERATED == <<".", "/", "g", "e", "n", "e", "r", "a", "t", "e", "d", "/">>
SLASH == <<"/">>
None == "None"

(* ---- inputs: environment names, bucket keys, directories on disk ---- *)
EnvA == <<"a">>
EnvB == <<"b">>
EnvDot == <<"a", ".">>
EnvPool == {EnvA, EnvB, EnvDot}

KeyPool ==
  { <<"a", "-", "p", "-", "r">> \o TFSTATE,
    <<"a", "-", "p">> \o TFSTATE,
    <<"a", ".", "-", "p", "-", "r">> \o TFSTATE,
    <<"b", "-", "p", "-", "r", "-", "s">> \o TFSTATE,
    <<"b", "-", "p">> }

DirPool ==
  { GENERATED \o <<"a", "/", "r">>,
    GENERATED \o <<"a", "/", "s">>,
    GENERATED \o <<"a", "/", "r", "/", "t">>,
    GENERATED \o <<"b", "/", "r">> }

(* ---- helpers on strings and sequences ---- *)
StartsWith(s, p) == Len(s) >= Len(p) /\ SubSeq(s, 1, Len(p)) = p

EndsWith(s, p) == Len(s) >= Len(p) /\ SubSeq(s, Len(s) - Len(p) + 1, Len(s)) = p

SeqsUpTo(S, n) == UNION { [1..k -> S] : k \in 0..n }

Injective(s) == \A i, j \in 1..Len(s) : s[i] = s[j] => i = j

RECURSIVE SetToSeq(_)
SetToSeq(S) ==
  IF S = {} THEN <<>>
  ELSE LET x == CHOOSE y \in S : TRUE IN <<x>> \o SetToSeq(S \ {x})

(* the characters re.escape puts a backslash before *)
SpecialChars ==
  { "(", ")", "[", "]", "{", "}", "?", "*", "+", "-", "|", "^", "$", "\\", ".", "&", "~",
    "#", " " }

(* variant: the search string is used as a pattern without escaping *)
re_escape_none(s) == s

(* re.escape *)
RECURSIVE re_escape(_)
re_escape(s) ==
  IF s = <<>> THEN <<>>
  ELSE (IF Head(s) \in SpecialChars THEN <<"\\", Head(s)>> ELSE <<Head(s)>>)
         \o re_escape(Tail(s))

(* re.match for the patterns built at line 75: a leading "^", then literal       *)
(* characters, backslash-escaped characters and "." (any character)              *)
RECURSIVE MatchHere(_, _)
MatchHere(p, s) ==
  IF p = <<>> THEN TRUE
  ELSE IF s = <<>> THEN FALSE
  ELSE IF Head(p) = "\\" /\ Len(p) >= 2
    THEN Head(s) = p[2] /\ MatchHere(SubSeq(p, 3, Len(p)), Tail(s))
  ELSE IF Head(p) = "." THEN MatchHere(Tail(p), Tail(s))
  ELSE Head(s) = Head(p) /\ MatchHere(Tail(p), Tail(s))

re_match(pattern, s) ==
  IF pattern # <<>> /\ Head(pattern) = "^" THEN MatchHere(Tail(pattern), s)
  ELSE MatchHere(pattern, s)

(* lines 77-79: the keys that match the pattern, in listing order *)
RECURSIVE Filter(_, _)
Filter(s, p) ==
  IF s = <<>> THEN <<>>
  ELSE (IF re_match(p, Head(s)) THEN <<Head(s)>> ELSE <<>>) \o Filter(Tail(s), p)

(* EnvironmentMetadata.__init__: output_path *)
OutputPath(name) == GENERATED \o name \o SLASH

(* re.sub('\.tfstate$', '', state_file_name) *)
RemoveSuffix(s) == IF EndsWith(s, TFSTATE) THEN SubSeq(s, 1, Len(s) - Len(TFSTATE)) ELSE s

(* str.split('-', 2): at most two splits, so at most three parts *)
Dashes(s) == { i \in 1..Len(s) : s[i] = "-" }

Min(S) == CHOOSE x \in S : \A y \in S : x <= y

(* variant: str.split('-') without the limit of two splits *)
RECURSIVE SplitAll(_)
SplitAll(s) ==
  IF Dashes(s) = {} THEN <<s>>
  ELSE LET d1 == Min(Dashes(s))
       IN <<SubSeq(s, 1, d1 - 1)>> \o SplitAll(SubSeq(s, d1 + 1, Len(s)))

Split2(s) ==
  IF Dashes(s) = {} THEN <<s>>
  ELSE LET d1 == Min(Dashes(s))
           rest == Dashes(s) \ {d1}
       IN IF rest = {} THEN <<SubSeq(s, 1, d1 - 1), SubSeq(s, d1 + 1, Len(s))>>
          ELSE LET d2 == Min(rest)
               IN <<SubSeq(s, 1, d1 - 1), SubSeq(s, d1 + 1, d2 - 1), SubSeq(s, d2 + 1, Len(s))>>

(* variant: the last part is taken ([-1]), which exists for every key *)
ResClassMetadataLastPart(state_file_name, environment_path) ==
  LET parts == Split2(RemoveSuffix(state_file_name))
  IN [exc |-> None,
      state_file_name |-> state_file_name,
      name |-> parts[Len(parts)],
      directory |-> environment_path \o parts[Len(parts)] \o SLASH]

(* ResClassMetadata.__init__: the [2] subscript raises IndexError on fewer than three parts *)
ResClassMetadata(state_file_name, environment_path) ==
  LET parts == Split2(RemoveSuffix(state_file_name))
  IN IF Len(parts) < 3 THEN [exc |-> "IndexError"]
     ELSE [exc |-> None,
           state_file_name |-> state_file_name,
           name |-> parts[3],
           directory |-> environment_path \o parts[3] \o SLASH]

(* a local name of generate_backend_file that no statement has assigned yet *)
Unbound == [exc |-> "Unbound"]

(* parse_bucket_objects: re.match(r"^" + re.escape(search_string), key) *)
parse_bucket_objects(keys, search_string) == Filter(keys, <<"^">> \o re_escape(search_string))

(* names bound inside generate_backend_file when line 114 is evaluated *)
GenerateLocals ==
  { "bucket_name", "state_file_list", "aws_region", "output_path", "file_loader", "env",
    "template", "res_class_metadatas", "state_file_name", "res_class_metadata",
    "output_file_name", "output_uri" }

ModuleGlobals ==
  { "boto3", "configparser", "logging", "re", "os", "Environment", "FileSystemLoader",
    "Popen", "PIPE", "STDOUT", "Pool", "EnvironmentMetadata", "ResClassMetadata",
    "DeployEnvironment", "ResClass", "configure_logging", "parse_bucket_objects",
    "generate_backend_file", "pull_state_file", "state_pull_subprocess", "init_res_classes",
    "init_subprocess", "parse_state_file", "main" }

NameBound(n) == n \in GenerateLocals \cup ModuleGlobals

(* generate_backend_file: the loop over state_file_list; dirs is the set of    *)
(* directories on disk, metas the list built so far.  The result carries the  *)
(* exception that left the loop, if any.                                       *)
RECURSIVE generate_backend_file(_, _, _, _)
generate_backend_file(state_file_list, output_path, dirs, metas) ==
  IF state_file_list = <<>>
    THEN [exc |-> None, value |-> metas, dirs |-> dirs,
          res_class_metadata |-> IF metas = <<>> THEN Unbound ELSE metas[Len(metas)]]
  ELSE LET m == ResClassMetadata(Head(state_file_list), output_path)
       IN IF m.exc # None
            THEN [exc |-> m.exc, value |-> metas, dirs |-> dirs, res_class_metadata |-> m]
          ELSE IF ~NameBound("output_dir")
            THEN [exc |-> "NameError", value |-> metas, dirs |-> dirs, res_class_metadata |-> m]
          ELSE generate_backend_file(Tail(state_file_list), output_path,
                                     dirs \cup {SubSeq(m.directory, 1, Len(m.directory) - 1)},
                                     Append(metas, m))

(* os.path.join(root, name) *)
Join(root, name) == IF EndsWith(root, SLASH) THEN root \o name ELSE root \o SLASH \o name

(* the directory entries of top that are directories, in listing order *)
ListDirs(dirs, top) ==
  LET t == IF EndsWith(top, SLASH) THEN SubSeq(top, 1, Len(top) - 1) ELSE top
      names == { SubSeq(p, Len(t) + 2, Len(p)) :
                   p \in { q \in dirs : /\ StartsWith(q, t \o SLASH)
                                        /\ Len(q) > Len(t) + 1
                                        /\ \A i \in (Len(t) + 2)..Len(q) : q[i] # "/" } }
  IN SetToSeq(names)

(* init_res_classes, lines 179-183: os.walk(output_path, topdown=False) visits the *)
(* subdirectories before the directory itself; every directory name of every visit *)
(* is appended.  WalkEach is the recursion of os.walk into the subdirectories.      *)
RECURSIVE Walk(_, _), WalkEach(_, _, _)
WalkEach(dirs, top, names) ==
  IF names = <<>> THEN <<>>
  ELSE Walk(dirs, Join(top, Head(names))) \o WalkEach(dirs, top, Tail(names))

Walk(dirs, top) ==
  LET names == ListDirs(dirs, top)
  IN WalkEach(dirs, top, names) \o [i \in 1..Len(names) |-> Join(top, names[i])]

PrefixClosed(D) ==
  \A p \in D : \A i \in (Len(GENERATED) + 3)..Len(p) :
    p[i] = "/" => SubSeq(p, 1, i - 1) \in D

Phases == {"init", "pull"}

(* a batch has one task per directory on disk *)
JobIds == 1..MaxDirs

(* returncode is <<>> while Popen.returncode is None, <<code>> afterwards *)
NewJob == [st |-> "pending", proc |-> "none", returncode |-> <<>>, popen_calls |-> 0]

(* the name "processed" of a pool function before and after its assignment *)
Unassigned == [assigned |-> FALSE, value |-> <<>>]

Assigned(v) == [assigned |-> TRUE, value |-> v]

VARIABLES
  project_environments,  \* main: project_environments.split(',')
  bucket,                \* keys returned by state_bucket.objects.all()
  fs,                    \* directories that exist on disk
  pc,                    \* position of main
  env_idx,               \* index of the for loop of main (0 before the first pass)
  state_file_list,       \* main: result of parse_bucket_objects
  res_class_metadatas,   \* environment_metadata.res_class_metadatas
  res_class_metadata,    \* generate_backend_file: the object built last by line 110
  res_class_dirs,        \* init_res_classes: list handed to both pools
  processes,             \* Pool(processes) of the running batch
  jobs,                  \* per phase, one task record per entry of res_class_dirs
  processed,             \* per phase, the list returned by pool.map
  exception              \* the uncaught exception that ended main, or None

vars == <<project_environments, bucket, fs, pc, env_idx, state_file_list,
          res_class_metadatas, res_class_metadata, res_class_dirs, processes, jobs,
          processed, exception>>

config == <<project_environments, bucket>>

Init ==
  /\ project_environments \in { s \in SeqsUpTo(EnvPool, MaxEnvs) : Len(s) >= 1 }
  /\ bucket \in { s \in SeqsUpTo(KeyPool, MaxKeys) : Injective(s) }
  /\ fs \in { D \in SUBSET DirPool : Cardinality(D) <= MaxDirs /\ PrefixClosed(D) }
  /\ pc = "for"
  /\ env_idx = 0
  /\ state_file_list = <<>>
  /\ res_class_metadatas = <<>>
  /\ res_class_metadata = Unbound
  /\ res_class_dirs = <<>>
  /\ processes = 0
  /\ jobs = [b \in Phases |-> <<>>]
  /\ processed = [b \in Phases |-> Unassigned]
  /\ exception = None

environment == project_environments[env_idx]

(* main, line 253: the next pass of the for loop, or the end of main *)
ForEnvironment ==
  /\ pc = "for"
  /\ IF env_idx < Len(project_environments)
       THEN /\ env_idx' = env_idx + 1
            /\ pc' = "scan"
            /\ res_class_metadatas' = <<>>
            /\ UNCHANGED res_class_metadata
       ELSE /\ pc' = "done"
            /\ UNCHANGED <<env_idx, res_class_metadatas, res_class_metadata>>
  /\ UNCHANGED <<config, fs, state_file_list, res_class_dirs, processes, jobs,
                 processed, exception>>

(* main, line 258 *)
Scan ==
  /\ pc = "scan"
  /\ state_file_list' = parse_bucket_objects(bucket, environment)
  /\ pc' = "generate"
  /\ UNCHANGED <<config, fs, env_idx, res_class_metadatas, res_class_metadata, res_class_dirs, processes,
                 jobs, processed, exception>>

(* main, lines 261-265 *)
Generate ==
  /\ pc = "generate"
  /\ LET r == generate_backend_file(state_file_list, OutputPath(environment), fs, <<>>)
     IN /\ fs' = r.dirs
        /\ res_class_metadata' = r.res_class_metadata
        /\ IF r.exc = None
             THEN /\ res_class_metadatas' = r.value
                  /\ pc' = "walk"
                  /\ UNCHANGED exception
             ELSE /\ exception' = r.exc
                  /\ pc' = "crashed"
                  /\ UNCHANGED res_class_metadatas
  /\ UNCHANGED <<config, env_idx, state_file_list, res_class_dirs, processes, jobs,
                 processed>>

MapPc(b) == IF b = "init" THEN "init_map" ELSE "pull_map"

Running(b) == { i \in 1..Len(jobs[b]) : jobs[b][i].st = "running" }

Terminal(b) == { i \in 1..Len(jobs[b]) : jobs[b][i].st \in {"returned", "raised"} }

(* subprocesses of a batch that were started and have not exited *)
LiveProcs(b) == { i \in 1..Len(jobs[b]) : jobs[b][i].proc \in {"alive", "hung", "blocked"} }

(* what may happen up to and including the Popen call of a worker function:     *)
(* init_subprocess calls Popen at once; state_pull_subprocess first opens       *)
(* state.json in the working directory.  Either call raises OSError when the    *)
(* file system or the executable does not allow it.                             *)
LaunchOutcomes(b) ==
  IF b = "init" THEN {"started", "popen_raised"}
  ELSE {"started", "open_raised", "popen_raised"}

(* lines 213-230 / 158-175: the loop that follows proc.wait(); time is not imported *)
AfterWait(returncode) ==
  IF returncode # <<>> THEN [exc |-> None, value |-> None]
  ELSE [exc |-> "NameError", value |-> None]

(* variant: a task whose worker function raised goes back to the task queue *)
TaskAfterRaiseRequeued(job) == [job EXCEPT !.st = "pending"]

(* the pool hands each task of the map to one worker, once *)
TaskAfterRaise(job) == [job EXCEPT !.st = "raised"]

(* init_res_classes, lines 179-190: collect the directories, create the pool *)
InitResClasses ==
  /\ pc = "walk"
  /\ \E dirs \in {Walk(fs, OutputPath(environment))} :
        /\ res_class_dirs' = dirs
        /\ processed' = [b \in Phases |-> Unassigned]
        /\ IF Len(dirs) < 1
             THEN /\ exception' = "ValueError"
                  /\ pc' = "crashed"
                  /\ processes' = 0
                  /\ jobs' = [b \in Phases |-> <<>>]
             ELSE /\ processes' = Len(dirs)
                  /\ jobs' = [b \in Phases |->
                                IF b = "init" THEN [i \in 1..Len(dirs) |-> NewJob] ELSE <<>>]
                  /\ pc' = "init_map"
                  /\ UNCHANGED exception
  /\ UNCHANGED <<config, fs, env_idx, state_file_list, res_class_metadatas, res_class_metadata>>

(* a free worker of the pool takes task i and runs the worker function up to Popen *)
Launch(b, i) ==
  /\ pc = MapPc(b)
  /\ i \in 1..Len(jobs[b])
  /\ jobs[b][i].st = "pending"
  /\ Cardinality(Running(b)) < processes
  /\ \E o \in LaunchOutcomes(b) :
       jobs' = [jobs EXCEPT ![b][i] =
                  IF o = "started"
                    THEN [@ EXCEPT !.st = "running", !.proc = "alive",
                                   !.popen_calls = @ + 1]
                  ELSE IF o = "popen_raised"
                    THEN TaskAfterRaise([@ EXCEPT !.popen_calls = @ + 1])
                  ELSE TaskAfterRaise(@)]
  /\ UNCHANGED <<config, fs, pc, env_idx, state_file_list, res_class_metadatas, res_class_metadata,
                 res_class_dirs, processes, processed, exception>>

(* the subprocess exits with a code; proc.wait() returns and the worker function *)
(* runs to its end                                                               *)
ProcExit(b, i) ==
  /\ pc = MapPc(b)
  /\ i \in 1..Len(jobs[b])
  /\ jobs[b][i].st = "running"
  /\ jobs[b][i].proc = "alive"
  /\ \E code \in {0, 1} :
       LET r == AfterWait(<<code>>)
       IN jobs' = [jobs EXCEPT ![b][i] =
                     [@ EXCEPT !.proc = "exited", !.returncode = <<code>>,
                               !.st = IF r.exc = None THEN "returned" ELSE "raised"]]
  /\ UNCHANGED <<config, fs, pc, env_idx, state_file_list, res_class_metadatas, res_class_metadata,
                 res_class_dirs, processes, processed, exception>>

(* the subprocess blocks for good (unreachable backend); proc.wait() has no timeout *)
ProcHang(b, i) ==
  /\ pc = MapPc(b)
  /\ i \in 1..Len(jobs[b])
  /\ jobs[b][i].st = "running"
  /\ jobs[b][i].proc = "alive"
  /\ jobs' = [jobs EXCEPT ![b][i].proc = "hung"]
  /\ UNCHANGED <<config, fs, pc, env_idx, state_file_list, res_class_metadatas, res_class_metadata,
                 res_class_dirs, processes, processed, exception>>

(* variant: pool.map is ready as soon as one result has arrived *)
MapReadyOnFirstResult(b) == Terminal(b) # {}

(* lines 202-211: the init subprocess writes to the pipe of stdout=PIPE while     *)
(* the worker is in proc.wait() and reads nothing before communicate() at line   *)
(* 217; once the pipe is full the subprocess blocks in its write                 *)
ProcBlocksOnPipe(i) ==
  /\ pc = "init_map"
  /\ i \in 1..Len(jobs["init"])
  /\ jobs["init"][i].st = "running"
  /\ jobs["init"][i].proc = "alive"
  /\ jobs' = [jobs EXCEPT !["init"][i].proc = "blocked"]
  /\ UNCHANGED <<config, fs, pc, env_idx, state_file_list, res_class_metadatas,
                 res_class_metadata, res_class_dirs, processes, processed, exception>>

(* pool.map is ready once the result of every task has arrived *)
MapReady(b) == Terminal(b) = 1..Len(jobs[b])

MapRaises(b) == \E i \in 1..Len(jobs[b]) : jobs[b][i].st = "raised"

(* lines 190-193 and 131-136: pool.map of the init batch returns or re-raises; *)
(* on return pull_state_file creates the second pool over the same list        *)
InitMapReturn ==
  /\ pc = "init_map"
  /\ MapReady("init")
  /\ IF MapRaises("init")
       THEN /\ exception' = "OSError"
            /\ pc' = "crashed"
            /\ UNCHANGED <<processed, jobs, processes>>
       ELSE /\ processed' = [processed EXCEPT !["init"] = Assigned([i \in 1..Len(jobs["init"]) |-> None])]
            /\ processes' = Len(res_class_dirs)
            /\ jobs' = [jobs EXCEPT !["pull"] = [i \in 1..Len(res_class_dirs) |-> NewJob]]
            /\ pc' = "pull_map"
            /\ UNCHANGED exception
  /\ UNCHANGED <<config, fs, env_idx, state_file_list, res_class_metadatas, res_class_metadata, res_class_dirs>>

(* lines 136-137, then main line 270: pool.map of the pull batch returns or *)
(* re-raises; on return main goes to the next environment                   *)
PullMapReturn ==
  /\ pc = "pull_map"
  /\ MapReady("pull")
  /\ IF MapRaises("pull")
       THEN /\ exception' = "OSError"
            /\ pc' = "crashed"
            /\ UNCHANGED processed
       ELSE /\ processed' = [processed EXCEPT !["pull"] = Assigned([i \in 1..Len(jobs["pull"]) |-> None])]
            /\ pc' = "for"
            /\ UNCHANGED exception
  /\ UNCHANGED <<config, fs, env_idx, state_file_list, res_class_metadatas, res_class_metadata, res_class_dirs,
                 processes, jobs>>

(* ---- vocabulary of the properties ---- *)

(* status of a task as the pool sees it: the worker function returned, or raised *)
JobStatus(job) ==
  CASE job.st = "pending" -> "pending"
    [] job.st = "running" -> "running"
    [] job.st = "returned" -> "succeeded"
    [] job.st = "raised" -> "failed"

(* the map call of batch b is over: the parent is past it, by return or by raise *)
BatchEnded(b) == Len(jobs[b]) > 0 /\ MapReady(b) /\ pc # MapPc(b)

(* main is past the two batches of the current environment, or will never run them *)
PipelineEnded == env_idx > 0 /\ pc \in {"for", "done", "crashed"}

RECURSIVE PopenCalls(_)
PopenCalls(js) == IF js = <<>> THEN 0 ELSE Head(js).popen_calls + PopenCalls(Tail(js))

WellFormed(keys) == { i \in 1..Len(keys) : ResClassMetadata(keys[i], <<>>).exc = None }

(* C1: in every state of a batch the number of subprocesses running at the same    *)
(* instant is at most the concurrency limit L, for every limit L >= 1, also when   *)
(* the batch has more jobs than L.                                                  *)
C1_BoundedParallelism ==
  \A b \in Phases : \A L \in 1..Len(jobs[b]) : Cardinality(LiveProcs(b)) <= L

(* C2: when a batch is over, its result holds exactly one entry per input          *)
(* directory, whatever mix of succeeding, failing and unlaunchable jobs it had.     *)
C2_OneEntryPerDirectory ==
  \A b \in Phases :
    BatchEnded(b) => /\ processed[b].assigned
                     /\ Len(processed[b].value) = Len(res_class_dirs)

(* C3: in a batch where a process exits non-zero and the others exit 0, the        *)
(* non-zero job ends failed, the others end succeeded, the batch is not aborted.    *)
C3_FailureIsolated ==
  \A b \in Phases :
    ( /\ BatchEnded(b)
      /\ \A i \in 1..Len(jobs[b]) : jobs[b][i].returncode # <<>>
      /\ \E i \in 1..Len(jobs[b]) : jobs[b][i].returncode = <<1>>
      /\ \E i \in 1..Len(jobs[b]) : jobs[b][i].returncode = <<0>> )
    => /\ processed[b].assigned
       /\ \A i \in 1..Len(jobs[b]) :
            JobStatus(jobs[b][i]) = IF jobs[b][i].returncode = <<0>> THEN "succeeded"
                                    ELSE "failed"

(* C4: a job whose process never exits is eventually terminated and reaches a     *)
(* terminal failed status.                                                          *)
C4_TimeoutTerminates ==
  \A b \in Phases : \A i \in JobIds :
    (i <= Len(jobs[b]) /\ jobs[b][i].proc = "hung")
      ~> (i <= Len(jobs[b]) /\ JobStatus(jobs[b][i]) = "failed")

(* C5: a job whose subprocess cannot be launched is recorded as a failed job of    *)
(* the batch result, and every sibling still reaches a terminal status.             *)
C5_LaunchErrorRecorded ==
  \A b \in Phases :
    (BatchEnded(b) /\ MapRaises(b))
    => /\ processed[b].assigned
       /\ \A i \in 1..Len(jobs[b]) : JobStatus(jobs[b][i]) \in {"succeeded", "failed"}

(* C6: the phases of an environment run in the order scan, generate, init batch,   *)
(* pull batch: a batch runs on the scan and generation results of its own          *)
(* environment, and no pull subprocess is launched before every init job of the    *)
(* environment is terminal.                                                         *)
C6_PhaseOrder ==
  /\ pc \in {"init_map", "pull_map"} =>
       /\ state_file_list = parse_bucket_objects(bucket, environment)
       /\ res_class_metadatas =
            generate_backend_file(state_file_list, OutputPath(environment), fs, <<>>).value
       /\ res_class_dirs = Walk(fs, OutputPath(environment))
  /\ \A i \in 1..Len(jobs["pull"]) :
       jobs["pull"][i].st # "pending" =>
         \A k \in 1..Len(jobs["init"]) : jobs["init"][k].st \in {"returned", "raised"}

C6_Witness ==
  /\ pc = "pull_map"
  /\ env_idx = 2
  /\ Len(jobs["init"]) >= 2
  /\ \E i \in 1..Len(jobs["pull"]) : jobs["pull"][i].proc = "alive"
  /\ \E k \in 1..Len(jobs["init"]) : jobs["init"][k].returncode = <<1>>

(* C7: when main ends, every configured environment has been attempted, whatever   *)
(* failed in the pipeline of an earlier one.                                        *)
C7_EveryEnvironmentAttempted ==
  pc \in {"done", "crashed"} => env_idx = Len(project_environments)

(* C8: registration over the matched keys never fails as a whole: a key whose      *)
(* name cannot be derived is skipped and every other key yields one entry.          *)
C8_RegistrationNeverFails ==
  /\ pc = "crashed" => exception # "IndexError"
  /\ pc \in {"walk", "init_map", "pull_map"} =>
       Len(res_class_metadatas) = Cardinality(WellFormed(state_file_list))

(* C9: when the pipeline of an environment is over, every resource class whose     *)
(* init job succeeded had a pull job dispatched, whatever happened to the others.   *)
C9_PullAfterSuccessfulInit ==
  PipelineEnded =>
    \A i \in 1..Len(jobs["init"]) :
      (jobs["init"][i].st = "returned" /\ jobs["init"][i].returncode = <<0>>)
        => (i <= Len(jobs["pull"]) /\ jobs["pull"][i].st # "pending")

(* C11: once the scan of an environment is done, the matched keys are, in the   *)
(* order of the listing, exactly the keys whose first len(prefix) characters     *)
(* equal the environment name as a literal string; the list may be empty.        *)
LiteralMatches == { i \in 1..Len(bucket) : StartsWith(bucket[i], environment) }

C11_LiteralPrefixMatch ==
  (env_idx >= 1 /\ pc # "scan") =>
    /\ Len(state_file_list) = Cardinality(LiteralMatches)
    /\ \A k \in 1..Len(state_file_list) :
         \E i \in LiteralMatches :
           /\ Cardinality({ j \in LiteralMatches : j <= i }) = k
           /\ state_file_list[k] = bucket[i]

C11_Witness ==
  /\ env_idx >= 1 /\ pc = "generate"
  /\ environment = EnvDot
  /\ Len(bucket) = 2
  /\ Len(state_file_list) = 1
  /\ \E i \in 1..Len(bucket) : bucket[i][2] = "-"

(* generate_backend_file has run on a non-empty list of the current environment: *)
(* line 110 has built, or failed to build, the object of the first key           *)
FirstKeyDerived == env_idx >= 1 /\ pc \notin {"scan", "generate"} /\ state_file_list # <<>>

(* the key without one trailing ".tfstate" *)
Stripped(key) ==
  CHOOSE t \in { SubSeq(key, 1, n) : n \in 0..Len(key) } :
    IF EndsWith(key, TFSTATE) THEN t \o TFSTATE = key ELSE t = key

DashCount(s) == Cardinality({ i \in 1..Len(s) : s[i] = "-" })

(* C12: for a key whose stripped form has at least three "-"-delimited segments  *)
(* the derived name is everything after the second "-", later "-" kept verbatim. *)
C12_NameAfterSecondDash ==
  (FirstKeyDerived /\ DashCount(Stripped(Head(state_file_list))) >= 2) =>
    LET t == Stripped(Head(state_file_list))
    IN /\ res_class_metadata.exc = None
       /\ \E j \in 1..Len(t) :
            /\ t[j] = "-"
            /\ DashCount(SubSeq(t, 1, j)) = 2
            /\ res_class_metadata.name = SubSeq(t, j + 1, Len(t))

C12_Witness ==
  /\ FirstKeyDerived
  /\ res_class_metadata.exc = None
  /\ \E i \in 1..Len(res_class_metadata.name) : res_class_metadata.name[i] = "-"

(* C13: for a key whose stripped form has fewer than three segments derivation   *)
(* fails with the malformed-key error (Python's IndexError) and yields no name   *)
(* and no working directory.                                                      *)
C13_MalformedKeyFails ==
  (FirstKeyDerived /\ DashCount(Stripped(Head(state_file_list))) < 2) =>
    /\ pc = "crashed" /\ exception = "IndexError"
    /\ res_class_metadata.exc = "IndexError"
    /\ DOMAIN res_class_metadata \cap {"name", "directory"} = {}
    /\ fs \subseteq DirPool

C13_Witness ==
  /\ FirstKeyDerived
  /\ EndsWith(Head(state_file_list), TFSTATE)
  /\ DashCount(Stripped(Head(state_file_list))) = 1
  /\ exception = "IndexError"

(* C14: generating the backend files of an environment with at least one       *)
(* well-formed key does not fail, the first time or any later time, and leaves  *)
(* the same backend files after every call.                                      *)
C14_GenerateIdempotent ==
  (FirstKeyDerived /\ DashCount(Stripped(Head(state_file_list))) >= 2) =>
    /\ exception # "NameError"
    /\ Len(res_class_metadatas) >= 1

(* exit status of the interpreter: 0 when main returns, 1 on an uncaught exception *)
ExitStatus == IF pc = "crashed" THEN 1 ELSE 0

(* C15: when the process has ended with a job whose subprocess did not exit     *)
(* with code 0, the exit status reports failure; it reports success only when    *)
(* every job succeeded.                                                          *)
C15_ExitStatusReflectsJobs ==
  pc \in {"done", "crashed"} =>
    ( (\E b \in Phases : \E i \in 1..Len(jobs[b]) : jobs[b][i].returncode = <<1>>)
        => ExitStatus # 0 )

(* C16: two distinct keys matched by the prefix of an environment get distinct  *)
(* working directories.                                                          *)
C16_DistinctDirectories ==
  (env_idx >= 1 /\ pc \notin {"scan", "generate"}) =>
    \A i, j \in 1..Len(state_file_list) :
      LET mi == ResClassMetadata(state_file_list[i], OutputPath(environment))
          mj == ResClassMetadata(state_file_list[j], OutputPath(environment))
      IN (state_file_list[i] # state_file_list[j] /\ mi.exc = None /\ mj.exc = None)
           => mi.directory # mj.directory

(* a directory path without its trailing "/" *)
NoTrailingSlash(d) == IF EndsWith(d, SLASH) THEN SubSeq(d, 1, Len(d) - 1) ELSE d

(* C17: the directories handed to the init batch and to the pull batch are      *)
(* exactly the working directories of the resource classes registered for the   *)
(* environment, each once.                                                       *)
C17_JobsAreRegisteredDirectories ==
  pc \in {"init_map", "pull_map"} =>
    /\ { res_class_dirs[i] : i \in 1..Len(res_class_dirs) }
         = { NoTrailingSlash(res_class_metadatas[k].directory) :
               k \in 1..Len(res_class_metadatas) }
    /\ Injective(res_class_dirs)

(* the status changes a job may make in one step *)
StatusStep(from, to) ==
  \/ from = to
  \/ from = "pending" /\ to \in {"running", "succeeded", "failed"}
  \/ from = "running" /\ to \in {"succeeded", "failed"}

(* C18: a job of a running batch changes status only forward along              *)
(* pending, running, terminal; a terminal status never changes; and the          *)
(* terminal status is succeeded exactly when the subprocess exited with code 0.  *)
C18_JobLifecycle ==
  [][ \A b \in Phases : \A i \in JobIds :
        (pc = MapPc(b) /\ i <= Len(jobs[b]) /\ i <= Len(jobs'[b])) =>
          /\ StatusStep(JobStatus(jobs[b][i]), JobStatus(jobs'[b][i]))
          /\ JobStatus(jobs'[b][i]) \in {"succeeded", "failed"} =>
               ( JobStatus(jobs'[b][i]) = "succeeded"
                   <=> jobs'[b][i].returncode = <<0>> ) ]_vars

(* C19: an init job whose subprocess is blocked writing its output to the pipe  *)
(* eventually reaches a terminal status, so the init batch returns.              *)
C19_InitNeverDeadlocks ==
  \A i \in JobIds :
    (i <= Len(jobs["init"]) /\ jobs["init"][i].proc = "blocked")
      ~> (i <= Len(jobs["init"]) /\ jobs["init"][i].st \in {"returned", "raised"})

(* C10: within a batch every job is launched at most once, also after it failed,   *)
(* so a batch never makes more Popen calls than it has input directories.           *)
C10_NoRetry ==
  \A b \in Phases :
    /\ \A i \in 1..Len(jobs[b]) : jobs[b][i].popen_calls <= 1
    /\ PopenCalls(jobs[b]) <= Len(res_class_dirs)

C10_Witness ==
  \E b \in Phases : \E i, k \in 1..Len(jobs[b]) :
    /\ jobs[b][i].st = "raised" /\ jobs[b][i].popen_calls = 1
    /\ jobs[b][k].st = "returned" /\ jobs[b][k].returncode = <<1>>
    /\ BatchEnded(b)

Next ==
  \/ ForEnvironment
  \/ Scan
  \/ Generate
  \/ InitResClasses
  \/ \E b \in Phases : \E i \in JobIds : Launch(b, i)
  \/ \E b \in Phases : \E i \in JobIds : ProcExit(b, i)
  \/ \E b \in Phases : \E i \in JobIds : ProcHang(b, i)
  \/ \E i \in JobIds : ProcBlocksOnPipe(i)
  \/ InitMapReturn
  \/ PullMapReturn

Spec == Init /\ [][Next]_vars

(* the runs the liveness property is checked on: two configured environments,  *)
(* no key in the bucket, directories left on disk by an earlier run; the OS    *)
(* keeps scheduling main, the pool workers and the subprocesses                *)
FairInit ==
  /\ Init
  /\ project_environments = <<EnvA, EnvB>>
  /\ bucket = <<>>
  /\ Cardinality(fs) = MaxDirs

FairSpec == FairInit /\ [][Next]_vars /\ WF_vars(Next)
====
